---- MODULE Spec2Model ----
(***************************************************************************)
(* The generational loop of src/src/elitism.py (eaSimpleWithElitism) and   *)
(* its caller GASolver.ga_solve of src/src/ga_solver.py.                   *)
(*                                                                         *)
(* An Individual is a record [genes, fit]: genes stands for the whole gene *)
(* sequence (two Individuals are "similar" for the hall of fame exactly    *)
(* when their genes are equal), fit is the raw value of fitness.values[0], *)
(* or Invalid while fitness.valid is false.  Rates are in percent.         *)
(* status_callback is None (its default), so no status line is modelled;   *)
(* the statistics record keeps gen, min, radiation, shock_event: the loop  *)
(* writes nevals and avg too and never reads them back.                    *)
(***************************************************************************)
EXTENDS Integers, Sequences, FiniteSets

\* ------------------------------------------------------------- bounds
MaxPop == 3
MaxGen == 4
MaxT == 1
\* the leak scenario: its population (standing for the scenario's 20) and the
\* generations of it that are explored (of the scenario's 10)
LeakPop == 3
LeakGen == 6
\* the run of ga_solve that outlasts its threshold of 50: its population and
\* its max_generations
GaPop == 2
GaGen == 53
\* the runs that see a Radiation Leak through to its end: their population,
\* generations and largest threshold
CyclePop == 2
CycleGen == 7
CycleT == 2

\* ---------------------------------------------------- program constants
Invalid == -1
Unset == -1
ElevatedMutpb == 50
P_MUTATION == 20
P_CROSSOVER == 90
GaStuckThreshold == 50
CometKeep == 3

\* two distinct gene sequences
Genes == {0, 1}
\* the recovery kinds eaSimpleWithElitism knows
Kinds == {"Comet Strike", "Radiation Leak"}

\* The evaluation functions a run may be given: a constant non-zero cost, the
\* gene itself (gene 0 is the optimum), and a cost that is never zero.
Evaluators ==
    { [g \in Genes |-> 1], [g \in Genes |-> g], [g \in Genes |-> g + 1] }

VARIABLES
    pc,              \* "start", "loop", "merge", "returned", "raised", "finished"
    caller,          \* "ga_solve" or "engine" (eaSimpleWithElitism called directly)
    evaluate,        \* toolbox.evaluate
    population_size, \* the size the population was created with
    ngen,
    stuck,           \* <<threshold, kind>>
    halloffame_is_None,
    hof_maxsize,
    hof_items,       \* halloffame.items, best first
    hof_size,
    population,
    offspring,
    logbook,
    gen,
    stuck_count,
    last_min,
    save_mutpb,
    mutpb,
    cxpb,
    radiation,
    shock_event,
    final_callback,  \* whether a final_callback is attached
    final_calls,     \* the calls final_callback has received
    solved,
    solution

vars == << pc, caller, evaluate, population_size, ngen, stuck, halloffame_is_None,
           hof_maxsize, hof_items, hof_size, population, offspring, logbook, gen,
           stuck_count, last_min, save_mutpb, mutpb, cxpb, radiation, shock_event,
           final_callback, final_calls, solved, solution >>

\* ------------------------------------------------------------ helpers
Max(a, b) == IF a >= b THEN a ELSE b

Range(s) == { s[i] : i \in 1..Len(s) }

RECURSIVE SeqMin(_)
SeqMin(s) ==
    IF Len(s) = 1 THEN s[1]
    ELSE LET m == SeqMin(Tail(s)) IN IF s[1] <= m THEN s[1] ELSE m

Fresh(g) == [genes |-> g, fit |-> Invalid]

\* ind.fitness.valid
Valid(ind) == ind.fit # Invalid

\* stats.compile(population)["min"]
StatMin(pool) == SeqMin([ i \in 1..Len(pool) |-> pool[i].fit ])

\* ------------------------------------------------- tools.HallOfFame
\* similar: equality of the gene sequences
Similar(a, b) == a.genes = b.genes

\* (mutant) the item goes after the worst member
HofInsertLast(items, ind) == Append(items, ind)

\* HallOfFame.insert: the item goes after the strictly better items, before
\* the items of equal fitness
HofInsert(items, ind) ==
    LET better == Cardinality({ j \in 1..Len(items) : items[j].fit < ind.fit })
    IN  SubSeq(items, 1, better) \o << ind >> \o SubSeq(items, better + 1, Len(items))

\* (mutant) a full hall of fame is never trimmed
HofOfferNoEvict(items, maxsize, ind) ==
    IF Len(items) = 0 THEN << ind >>
    ELSE IF \E j \in 1..Len(items) : Similar(ind, items[j]) THEN items
    ELSE HofInsert(items, ind)

\* One round of HallOfFame.update's loop
HofOffer(items, maxsize, ind) ==
    IF Len(items) = 0 THEN << ind >>
    ELSE IF ind.fit < items[Len(items)].fit \/ Len(items) < maxsize
         THEN IF \E j \in 1..Len(items) : Similar(ind, items[j])
              THEN items
              ELSE HofInsert(IF Len(items) >= maxsize
                             THEN SubSeq(items, 1, Len(items) - 1)
                             ELSE items, ind)
         ELSE items

RECURSIVE HofUpdate(_, _, _)
HofUpdate(items, maxsize, pool) ==
    IF Len(pool) = 0 THEN items
    ELSE HofUpdate(HofOffer(items, maxsize, pool[1]), maxsize, Tail(pool))

\* ------------------------------------------------------------ toolbox
\* The random operators are independent from one Individual of a pool to the
\* next, so a pool that is yet to be drawn is kept as its sequence of slots:
\* for every position, the set of Individuals that may stand there.
RECURSIVE Pools(_)
Pools(slots) ==
    IF Len(slots) = 0 THEN { << >> }
    ELSE { << h >> \o t : h \in slots[1], t \in Pools(Tail(slots)) }

\* a list that is already there
Fixed(pool) == [ i \in 1..Len(pool) |-> { pool[i] } ]

\* (mutant) the pool of the previous generation goes through selection first
StaleSelected(pool) == [ i \in 1..Max(Len(pool) - 1, 0) |-> Range(pool) ]

\* offspring is not assigned by the branch: the list the previous generation
\* left in it
Stale(pool) == Fixed(pool)

\* toolbox.populationCreator(n): n fresh Individuals, none for n <= 0
PopulationCreator(n) == [ i \in 1..Max(n, 0) |-> { Fresh(g) : g \in Genes } ]

\* toolbox.select(population, k): k picks, each any Individual of the population
Select(pool, k) == [ i \in 1..Max(k, 0) |-> Range(pool) ]

\* algorithms.varAnd: every Individual is cloned and either left as it is or
\* changed by crossover/mutation, which deletes its fitness
VarAnd(slots) ==
    [ i \in 1..Len(slots) |-> slots[i] \cup { Fresh(g) : g \in Genes } ]

\* for ind, fit in zip(invalid_ind, fitnesses): ind.fitness.values = fit
Evaluated(ind, ev) ==
    IF Valid(ind) THEN ind ELSE [genes |-> ind.genes, fit |-> ev[ind.genes]]

EvaluateAll(slots, ev) ==
    [ i \in 1..Len(slots) |-> { Evaluated(ind, ev) : ind \in slots[i] } ]

\* ----------------------------------------------- steps of the loop body
\* (mutant) radiation decays two steps at a time
DecayFast(r) == Max(r - 2, 0)

\* radiation = max(radiation - 1, 0)
Decay(r) == Max(r - 1, 0)

\* (mutant) the threshold is compared three too low
StagnatedEager(threshold, count) == threshold < count + 3

\* (mutant) the threshold is compared one too high
StagnatedLate(threshold, count) == threshold + 1 < count

\* if stuck[0] < stuck_count
Stagnated(threshold, count) == threshold < count

\* halloffame.items[:3]
TopOfHof(items) == SubSeq(items, 1, IF Len(items) < CometKeep THEN Len(items) ELSE CometKeep)

\* (mutant) only the last hall-of-fame member is injected
MergedWorstOnly(pool, items) == pool \o << items[Len(items)] >>

\* offspring.extend(halloffame.items)
Merged(pool, items) == pool \o items

\* if last_min: (False and 0 are falsy)
Truthy(v) == v # Unset /\ v # 0

\* (mutant) the first comparison, against the unset last_min, counts too
NextStuckCountFirst(last, new_min, count) ==
    IF Truthy(last) /\ new_min # last THEN 0 ELSE count + 1

\* (mutant) a changed minimum does not reset the counter
NextStuckCountKeep(last, new_min, count) ==
    IF Truthy(last) /\ new_min = last THEN count + 1 ELSE count

\* (mutant) an unchanged minimum counts twice
NextStuckCountDouble(last, new_min, count) ==
    IF Truthy(last) THEN (IF new_min = last THEN count + 2 ELSE 0) ELSE count

\* the stagnation counter after a generation whose running minimum is new_min
NextStuckCount(last, new_min, count) ==
    IF Truthy(last) THEN (IF new_min = last THEN count + 1 ELSE 0) ELSE count

\* logbook.select('min')
SelectMin(log) == [ i \in 1..Len(log) |-> log[i].min ]

\* if last_min == 0: break
EarlyStop(m) == m = 0

\* (mutant) range(1, ngen + 2)
LoopDoneLate(g, n) == g >= n + 1

\* for gen in range(1, ngen + 1): the range is exhausted
LoopDone(g, n) == g >= n

\* (mutant) the radiation counter is recorded one step further
RecordDecayed(g, m, r, s) ==
    [gen |-> g, min |-> m, radiation |-> Max(r - 1, 0), shock_event |-> s]

\* logbook.record(gen=gen, ..., radiation=radiation, shock_event=shock_event)
Record(g, m, r, s) == [gen |-> g, min |-> m, radiation |-> r, shock_event |-> s]

\* (mutant) the last hall-of-fame member is tested
SolvedLast(items) == items[Len(items)].fit = 0

\* hof.items[0].fitness.values[0] == 0
Solved(items) == items[1].fit = 0

\* self.n_sudoku.get_solution(hof.items[0])
Decode(ind) == << "solution", ind.genes >>

\* -------------------------------------------------------------- Init
\* The state at the call of eaSimpleWithElitism, before its first line
Setup(c, n, k, g, st, none, cb) ==
    /\ pc = "start"
    /\ caller = c
    /\ evaluate \in Evaluators
    /\ population_size = n
    /\ ngen = g
    /\ stuck = st
    /\ halloffame_is_None = none
    /\ hof_maxsize = k
    /\ hof_items = << >>
    /\ hof_size = 0
    /\ population \in Pools(PopulationCreator(n))
    /\ offspring = << >>
    /\ logbook = << >>
    /\ gen = 0
    /\ stuck_count = 0
    /\ last_min = Unset
    /\ save_mutpb = P_MUTATION
    /\ mutpb = P_MUTATION
    /\ cxpb = P_CROSSOVER
    /\ radiation = 0
    /\ shock_event = ""
    /\ final_callback = cb
    /\ final_calls = << >>
    /\ solved = FALSE
    /\ solution = << >>

\* GASolver.__init__ and ga_solve 94-111 (stuck=(50, 'chernobyl')), or a direct
\* call of the engine with a threshold and one of its two kinds
Init ==
    \E n \in 1..MaxPop, g \in 0..MaxGen : \E k \in 1..n :
        \/ \E cb \in BOOLEAN :
             Setup("ga_solve", n, k, g, << GaStuckThreshold, "chernobyl" >>, FALSE, cb)
        \/ \E t \in 0..MaxT, kind \in Kinds, none \in BOOLEAN :
             Setup("engine", n, k, g, << t, kind >>, none, FALSE)

\* ------------------------------------------------------------ actions
\* elitism.py 15-22: the population is evaluated, then the missing hall of
\* fame is reported
RaiseNoHallOfFame ==
    /\ pc = "start"
    /\ halloffame_is_None
    /\ population' \in Pools(EvaluateAll(Fixed(population), evaluate))
    /\ pc' = "raised"
    /\ UNCHANGED << caller, evaluate, population_size, ngen, stuck, halloffame_is_None,
                    hof_maxsize, hof_items, hof_size, offspring, logbook, gen,
                    stuck_count, last_min, save_mutpb, mutpb, cxpb, radiation,
                    shock_event, final_callback, final_calls, solved, solution >>

\* elitism.py 12-37: generation 0
Generation0 ==
    /\ pc = "start"
    /\ ~halloffame_is_None
    /\ LET pop == CHOOSE q \in Pools(EvaluateAll(Fixed(population), evaluate)) : TRUE
           items == HofUpdate(hof_items, hof_maxsize, pop)
       IN  /\ population' = pop
                  /\ hof_items' = items
           /\ hof_size' = Len(items)
           /\ logbook' = << [gen |-> 0, min |-> StatMin(pop)] >>
    /\ stuck_count' = 0
    /\ last_min' = Unset
    /\ save_mutpb' = mutpb
    /\ radiation' = 0
    /\ pc' = "loop"
    /\ UNCHANGED << caller, evaluate, population_size, ngen, stuck, halloffame_is_None,
                    hof_maxsize, offspring, gen, mutpb, cxpb, shock_event,
                    final_callback, final_calls, solved, solution >>

\* elitism.py 40-79: decay, the branch on stagnation, variation, evaluation
Breed ==
    /\ pc = "loop"
    /\ ~LoopDone(gen, ngen)
    /\ gen' = gen + 1
    /\ LET r1 == Decay(radiation)
           m1 == IF r1 = 0 THEN save_mutpb ELSE mutpb
           c1 == IF r1 = 0 THEN stuck_count ELSE 0
           shock == Stagnated(stuck[1], c1)
           comet == shock /\ stuck[2] = "Comet Strike"
           leak == shock /\ stuck[2] = "Radiation Leak"
           pool == IF comet
                   THEN PopulationCreator(Len(population) - CometKeep)
                            \o Fixed(TopOfHof(hof_items))
                   ELSE IF shock THEN Stale(offspring)
                   ELSE Select(population, Len(population) - hof_size)
       IN  /\ hof_items' = IF comet THEN << >> ELSE hof_items
           /\ mutpb' = IF leak THEN ElevatedMutpb ELSE m1
           /\ radiation' = IF leak THEN stuck[1] ELSE r1
           /\ shock_event' = IF comet THEN "Comet Strike"
                             ELSE IF leak THEN "Radiation Leak" ELSE ""
           /\ stuck_count' = IF shock THEN 0 ELSE c1
           /\ offspring' \in Pools(EvaluateAll(VarAnd(pool), evaluate))
    /\ pc' = "merge"
    /\ UNCHANGED << caller, evaluate, population_size, ngen, stuck, halloffame_is_None,
                    hof_maxsize, hof_size, population, logbook, last_min, save_mutpb,
                    cxpb, final_callback, final_calls, solved, solution >>

\* elitism.py 81-114: elitism, hall of fame, statistics, stagnation, early stop
Merge ==
    /\ pc = "merge"
    /\ LET pool == Merged(offspring, hof_items)
           log == Append(logbook, Record(gen, StatMin(pool), radiation, shock_event))
           new_min == SeqMin(SelectMin(log))
       IN  /\ offspring' = pool
           /\ hof_items' = HofUpdate(hof_items, hof_maxsize, pool)
           /\ population' = pool
           /\ logbook' = log
           /\ stuck_count' = NextStuckCount(last_min, new_min, stuck_count)
           /\ last_min' = new_min
           /\ pc' = IF EarlyStop(new_min) THEN "returned" ELSE "loop"
    /\ UNCHANGED << caller, evaluate, population_size, ngen, stuck, halloffame_is_None,
                    hof_maxsize, hof_size, gen, save_mutpb, mutpb, cxpb, radiation,
                    shock_event, final_callback, final_calls, solved, solution >>

\* elitism.py 40, 116: range(1, ngen + 1) is exhausted
Return ==
    /\ pc = "loop"
    /\ LoopDone(gen, ngen)
    /\ pc' = "returned"
    /\ UNCHANGED << caller, evaluate, population_size, ngen, stuck, halloffame_is_None,
                    hof_maxsize, hof_items, hof_size, population, offspring, logbook,
                    gen, stuck_count, last_min, save_mutpb, mutpb, cxpb, radiation,
                    shock_event, final_callback, final_calls, solved, solution >>

\* ga_solver.py 113-122
Finish ==
    /\ pc = "returned"
    /\ caller = "ga_solve"
    /\ solution' = Decode(hof_items[1])
    /\ solved' = Solved(hof_items)
    /\ final_calls' = IF final_callback
                      THEN Append(final_calls,
                                  IF Solved(hof_items)
                                  THEN << TRUE, Decode(hof_items[1]) >>
                                  ELSE << FALSE >>)
                      ELSE final_calls
    /\ pc' = "finished"
    /\ UNCHANGED << caller, evaluate, population_size, ngen, stuck, halloffame_is_None,
                    hof_maxsize, hof_items, hof_size, population, offspring, logbook,
                    gen, stuck_count, last_min, save_mutpb, mutpb, cxpb, radiation,
                    shock_event, final_callback >>

Next ==
    \/ RaiseNoHallOfFame
    \/ Generation0
    \/ Breed
    \/ Merge
    \/ Return
    \/ Finish

Spec == Init /\ [][Next]_vars

\* The leak scenario: a constant non-zero evaluation, hall_of_fame_size 3,
\* stuck = (2, 'Radiation Leak')
InitLeak ==
    /\ Setup("engine", LeakPop, 3, LeakGen, << 2, "Radiation Leak" >>, FALSE, FALSE)
    /\ evaluate = [g \in Genes |-> 1]

NextLeak == Generation0 \/ Breed \/ Merge \/ Return

SpecLeak == InitLeak /\ [][NextLeak]_vars

\* GASolver.ga_solve with hall_of_fame_size 1, run long enough for its
\* stuck=(50, 'chernobyl') to trigger
InitGa ==
    \E cb \in BOOLEAN :
        Setup("ga_solve", GaPop, 1, GaGen, << GaStuckThreshold, "chernobyl" >>, FALSE, cb)

NextGa == Generation0 \/ Breed \/ Merge \/ Return \/ Finish

SpecGa == InitGa /\ [][NextGa]_vars

\* The engine called with hall_of_fame_size 1, a Radiation Leak of threshold
\* >= 1 and enough generations for the leak to be dispatched and to decay
InitCycle ==
    \E t \in 1..CycleT :
        Setup("engine", CyclePop, 1, CycleGen, << t, "Radiation Leak" >>, FALSE, FALSE)

NextCycle == Generation0 \/ Breed \/ Merge \/ Return

SpecCycle == InitCycle /\ [][NextCycle]_vars

\* ------------------------------------------------------------- claims
\* a generation boundary: generation gen is complete
Boundary == pc \in {"loop", "returned", "finished"}

\* the record of generation g
Rec(g) == logbook[g + 1]

\* the running minimum of the log after generation g
RunMin(g) == SeqMin(SelectMin(SubSeq(logbook, 1, g + 1)))

\* C1: after every executed generation the population has exactly
\* population_size Individuals, whatever the configuration.
C1_PopulationSizeInvariance ==
    Boundary => Len(population) = population_size

\* C2: once a generation's population holds an Individual of fitness 0 (its
\* record's min is 0), no later generation is executed, and at termination
\* the best hall-of-fame member has fitness 0.
C2_EarlyStop ==
    /\ \A i \in 1..Len(logbook) : logbook[i].min = 0 => Len(logbook) = i
    /\ (pc \in {"returned", "finished"} /\ \E i \in 1..Len(logbook) : logbook[i].min = 0)
          => hof_items[1].fit = 0

\* C3: the min recorded for generation g+1 is <= the min recorded for
\* generation g unless generation g+1 dispatched a Comet Strike.
C3_ElitismPreservation ==
    \A g \in 0..(Len(logbook) - 2) :
        Rec(g + 1).shock_event # "Comet Strike" => Rec(g + 1).min <= Rec(g).min

\* C3's case: a Radiation Leak generation that strictly improved the minimum
C3_Witness ==
    \E g \in 0..(Len(logbook) - 2) :
        Rec(g + 1).shock_event = "Radiation Leak" /\ Rec(g + 1).min < Rec(g).min

\* the running minimum has one value after each of the generations g..h
Flat(g, h) == \A i \in g..h : RunMin(i) = RunMin(g)

\* the radiation recorded for the generations g..h is 0
Calm(g, h) == \A i \in g..h : Rec(i).radiation = 0

C5_LeakWithin4 ==
    Len(logbook) >= 5 => \E g \in 1..4 : Rec(g).radiation > 0

\* C5 (amended): in the leak scenario the recorded radiation is 0 for the
\* generations 1..4 and 2 for generation 5, whose variation uses the elevated
\* mutation rate; the base rate is used before.
C5_LeakAt5 ==
    /\ \A g \in 1..(Len(logbook) - 1) :
          /\ g <= 4 => Rec(g).radiation = 0 /\ Rec(g).shock_event = ""
          /\ g = 5 => Rec(g).radiation = 2 /\ Rec(g).shock_event = "Radiation Leak"
    /\ (gen >= 1 /\ gen <= 4) => mutpb = save_mutpb /\ mutpb # ElevatedMutpb
    /\ gen = 5 => mutpb = ElevatedMutpb /\ radiation = 2

\* C5's case: generation 5 of the scenario is complete
C5_Witness ==
    pc = "loop" /\ gen = 5 /\ Rec(5).radiation = 2 /\ mutpb = ElevatedMutpb

\* the shock event the branch of this generation carried out, read from its
\* effects: a Comet Strike leaves the hall of fame empty, a Radiation Leak
\* sets the elevated rate and radiation = threshold
Dispatched ==
    IF hof_items = << >> THEN "Comet Strike"
    ELSE IF stuck[2] = "Radiation Leak" /\ mutpb = ElevatedMutpb /\ radiation = stuck[1]
         THEN "Radiation Leak"
         ELSE ""

\* C6: the shock_event of generation g's record is non-empty iff a shock
\* event was dispatched in generation g, and then names its kind; the
\* radiation of the record is the radiation counter at the end of generation g.
C6_ShockLabel ==
    /\ pc = "merge" => shock_event = Dispatched
    /\ (Boundary /\ gen >= 1) =>
          /\ Rec(gen).gen = gen
          /\ Rec(gen).shock_event = shock_event
          /\ Rec(gen).radiation = radiation

\* C6's case: a Radiation Leak with threshold 1 has been recorded
C6_Witness ==
    /\ pc = "loop" /\ gen >= 1
    /\ Rec(gen).shock_event = "Radiation Leak" /\ Rec(gen).radiation = 1

\* C7: the hall of fame never holds more than hall_of_fame_size members; it
\* is non-empty at every generation boundary, and empty inside a generation
\* only between a Comet Strike and that generation's update.
C7_HallOfFameBound ==
    /\ Len(hof_items) <= hof_maxsize
    /\ Boundary => Len(hof_items) >= 1
    /\ (pc = "merge" /\ hof_items = << >>) => shock_event = "Comet Strike"

\* C7's case: a full hall of fame of two after a Comet Strike generation
C7_Witness ==
    /\ pc = "loop" /\ gen >= 1 /\ Rec(gen).shock_event = "Comet Strike"
    /\ hof_maxsize = 2 /\ Len(hof_items) = 2

\* C8: with no hall of fame the call raises before anything else: no
\* Individual has been evaluated, nothing is recorded, no generation has run.
C8_RaiseBeforeAnything ==
    pc = "raised" =>
        /\ \A i \in 1..Len(population) : ~Valid(population[i])
        /\ logbook = << >>
        /\ gen = 0

\* the call has ended: it raised, or returned to a direct caller, or
\* ga_solve has finished
Stopped ==
    pc \in {"raised", "finished"} \/ (pc = "returned" /\ caller = "engine")

\* some step can be taken (Generation0 and Merge have no condition but their
\* place in the code)
CanStep ==
    \/ pc = "start" /\ ~halloffame_is_None
    \/ pc = "merge"
    \/ ENABLED (RaiseNoHallOfFame \/ Breed \/ Return \/ Finish)

\* an upper bound of the steps a run still takes
StepsLeft ==
    CASE pc = "start" -> 2 * ngen + 4
      [] pc = "loop" -> 2 * (ngen - gen) + 3
      [] pc = "merge" -> 2 * (ngen - gen) + 4
      [] pc = "returned" -> 1
      [] OTHER -> 0

\* C9: every run reaches the stopped state, having executed at most ngen
\* generations after generation 0 (it never exceeds ngen, a run that has not
\* stopped can take a step, and every step brings the end nearer); the log
\* it returns holds one record per executed generation, indexed 0..gen in
\* order, and records are only ever appended.
C9_BoundedTermination ==
    /\ [](gen <= ngen /\ StepsLeft >= 0)
    /\ [](Stopped \/ CanStep)
    /\ [][StepsLeft' < StepsLeft]_vars
    /\ []((pc \in {"returned", "finished"}) =>
            /\ Len(logbook) = gen + 1
            /\ \A i \in 1..Len(logbook) : logbook[i].gen = i - 1)
    /\ [][/\ Len(logbook') >= Len(logbook)
           /\ SubSeq(logbook', 1, Len(logbook)) = logbook]_vars

\* C9's case: a run that used all of its 4 generations has returned
C9_Witness ==
    pc = "returned" /\ ngen = 4 /\ gen = ngen /\ Len(logbook) = 5

BranchCount == IF Decay(radiation) = 0 THEN stuck_count ELSE 0

\* the step from the top of the loop body to the end of its evaluation, taken
\* with stuck_count above the threshold
Triggered == pc = "loop" /\ pc' = "merge" /\ Stagnated(stuck[1], BranchCount)

\* C11: in every generation in which stuck_count exceeds the threshold at the
\* branch point exactly one shock event is dispatched, Comet Strike or
\* Radiation Leak, and stuck_count is 0 after the dispatch; for every
\* configuration, the one of ga_solve included.
C11_ExactlyOneShock ==
    [][Triggered => (shock_event' \in Kinds /\ stuck_count' = 0)]_vars

\* the triggered step of a run configured for the Comet Strike
CometStep == Triggered /\ stuck[2] = "Comet Strike"

\* C12: in a generation where a Comet Strike is dispatched the pool that
\* becomes the population ends with the top min(3, len(hall of fame)) members
\* as they were before the strike (same genes, same fitness), after
\* len(population) - 3 freshly generated Individuals; the hall of fame is
\* cleared, and after the generation's update it holds only Individuals of
\* that generation's population, which is the pool.
C12_CometPreservesBest ==
    [][/\ CometStep =>
             LET keep == TopOfHof(hof_items)
                 n == Len(offspring')
             IN  /\ n = Max(Len(population) - CometKeep, 0) + Len(keep)
                 /\ SubSeq(offspring', n - Len(keep) + 1, n) = keep
                 /\ hof_items' = << >>
       /\ (pc = "merge" /\ shock_event = "Comet Strike") =>
             /\ population' = offspring
             /\ Range(hof_items') \subseteq Range(population')]_vars

\* C13: for every generation g >= 1 and every threshold T >= 0 the mutation
\* rate passed to the variation step of generation g is the elevated value
\* iff the radiation counter is > 0 at that step, and the configured base
\* rate otherwise; the crossover rate is never changed.
C13_MutationFollowsRadiation ==
    /\ pc = "merge" =>
          /\ (mutpb = ElevatedMutpb) <=> (radiation > 0)
          /\ radiation = 0 => mutpb = P_MUTATION
    /\ cxpb = P_CROSSOVER

\* a Radiation Leak was dispatched in generation g (the generation under way
\* has no record yet)
LeakAt(g) ==
    IF pc = "merge" /\ g = gen THEN shock_event = "Radiation Leak"
    ELSE g >= 1 /\ g <= Len(logbook) - 1 /\ Rec(g).shock_event = "Radiation Leak"

\* C14: after a Radiation Leak dispatched in generation g with threshold
\* T >= 1 the recorded radiation is T at g, one less in each following
\* generation and 0 at g+T (as far as the run lasts); the variation step uses
\* the elevated rate in exactly the generations g..g+T-1 of a leak and the
\* base rate in every other one, g+T included.
C14_LeakReversible ==
    stuck[1] >= 1 =>
        /\ \A g \in 1..(Len(logbook) - 1) :
              Rec(g).shock_event = "Radiation Leak" =>
                  \A i \in 0..stuck[1] :
                      g + i <= Len(logbook) - 1 => Rec(g + i).radiation = stuck[1] - i
        /\ pc = "merge" =>
              /\ (mutpb = ElevatedMutpb)
                    <=> \E g \in Max(1, gen - stuck[1] + 1)..gen : LeakAt(g)
              /\ mutpb # ElevatedMutpb => mutpb = P_MUTATION

\* C14's case: a leak of threshold 2 has decayed to 0 and the variation of the
\* generation after its last elevated one ran at the base rate
C14_Witness ==
    /\ stuck = << 2, "Radiation Leak" >> /\ pc = "merge" /\ gen >= 3
    /\ LeakAt(gen - 2) /\ Rec(gen - 1).radiation = 1
    /\ radiation = 0 /\ mutpb = P_MUTATION

\* pool is one of the pools the slots can give
InSlots(pool, slots) ==
    Len(pool) = Len(slots) /\ \A i \in 1..Len(pool) : pool[i] \in slots[i]

\* the step of a generation whose radiation is still > 0 after the decay
StillActive == pc = "loop" /\ pc' = "merge" /\ Decay(radiation) > 0

\* C15: in every generation whose radiation counter is still > 0 after the
\* decay step stuck_count is 0 at the branch point, the pool comes from
\* normal selection (len(population) - hof_size picks, varied and evaluated)
\* and no shock event is dispatched: the hall of fame, the mutation rate and
\* the decayed counter are left alone; so no shock event is ever recorded for
\* a generation that follows one with radiation > 1.
C15_ActiveShockSuppresses ==
    /\ [][StillActive =>
             /\ BranchCount = 0 /\ ~Triggered
             /\ stuck_count' = 0 /\ shock_event' = ""
             /\ radiation' = Decay(radiation) /\ mutpb' = mutpb
             /\ hof_items' = hof_items
             /\ InSlots(offspring',
                        EvaluateAll(VarAnd(Select(population, Len(population) - hof_size)),
                                    evaluate))]_vars
    /\ [](\A g \in 2..(Len(logbook) - 1) :
              Rec(g - 1).radiation > 1 => Rec(g).shock_event = "")

\* C15's case: a generation varied with radiation still > 0, whose stuck_count
\* of 1 was forced to 0
C15_Witness ==
    /\ pc = "merge" /\ gen >= 2 /\ radiation > 0 /\ Rec(gen - 1).radiation > radiation
    /\ shock_event = "" /\ stuck_count = 0

\* C16: at the end of every generation g >= 1 new_min is the minimum of the
\* min field over all log records 0..g; stuck_count is incremented by 1 if
\* last_min was already set and new_min = last_min and is 0 otherwise (the
\* first comparison, with last_min unset, included); last_min becomes new_min.
C16_StuckCountUpdate ==
    [][pc = "merge" =>
          LET new_min == last_min'
          IN  /\ Len(logbook') = gen + 1
              /\ \A i \in 1..Len(logbook') : new_min <= logbook'[i].min
              /\ \E i \in 1..Len(logbook') : new_min = logbook'[i].min
              /\ stuck_count' = IF last_min # Unset /\ new_min = last_min
                                THEN stuck_count + 1
                                ELSE 0]_vars

\* C16's case: the first comparison left the counter at 0, the minimum
\* improved in generation 2 (reset) and stayed in generation 3 (increment)
C16_Witness ==
    /\ pc = "loop" /\ gen = 3 /\ stuck_count = 1
    /\ RunMin(2) < RunMin(1) /\ RunMin(3) = RunMin(2)

\* the gene sequences held by the Individuals of a pool
GenesOf(pool) == { pool[i].genes : i \in 1..Len(pool) }

\* C17: within one run the evaluation function is never invoked twice on the
\* same gene sequence.  The Individuals scored by the first pass are the
\* ones with an invalid fitness; of a generation reached by normal selection,
\* the offspring whose genes no Individual of the population has were
\* produced by variation and scored in this generation: in either pass no
\* two of the scored Individuals have the same genes.  Individuals with a
\* valid fitness keep it through the first pass.
C17_CachingDiscipline ==
    [][/\ pc = "start" =>
             /\ \A i, j \in 1..Len(population) :
                   (i # j /\ ~Valid(population[i]) /\ ~Valid(population[j]))
                       => population[i].genes # population[j].genes
             /\ \A i \in 1..Len(population) :
                   Valid(population[i]) => population'[i] = population[i]
       /\ (pc = "loop" /\ pc' = "merge" /\ ~Triggered) =>
             \A i, j \in 1..Len(offspring') :
                 (/\ i # j
                  /\ offspring'[i].genes \notin GenesOf(population)
                  /\ offspring'[j].genes \notin GenesOf(population))
                     => offspring'[i].genes # offspring'[j].genes]_vars

\* C18: for every threshold T >= 0 and every kind, 0 <= stuck_count <= T + 1
\* at every generation boundary and 0 <= radiation <= T at all times.
C18_StuckCountBounded ==
    stuck[1] >= 0 =>
        /\ Boundary => (0 <= stuck_count /\ stuck_count <= stuck[1] + 1)
        /\ 0 <= radiation /\ radiation <= stuck[1]

\* C18's case: with threshold 1 the counter stands at 2 at a boundary
C18_Witness ==
    /\ pc = "loop" /\ gen >= 3 /\ stuck[1] = 1 /\ stuck[2] \in Kinds
    /\ stuck_count = stuck[1] + 1

\* no Comet Strike has been recorded
NoComet == \A g \in 1..(Len(logbook) - 1) : Rec(g).shock_event # "Comet Strike"

\* C19: in a run in which no Comet Strike has been dispatched, at every
\* generation boundary the running minimum of the log's min field equals the
\* fitness of the best hall-of-fame member, and is the fitness of an
\* Individual of the population: without a Comet Strike the running minimum
\* is never strictly better than everything currently held.
C19_RunningMinIsBestOfHof ==
    (Boundary /\ NoComet) =>
        /\ RunMin(gen) = hof_items[1].fit
        /\ \E i \in 1..Len(population) : population[i].fit = RunMin(gen)

\* C19's case: a run with a Radiation Leak and no Comet Strike whose minimum
\* improved after generation 0, the hall of fame holding two members
C19_Witness ==
    /\ pc = "loop" /\ gen >= 3 /\ NoComet
    /\ \E g \in 1..gen : Rec(g).shock_event = "Radiation Leak"
    /\ RunMin(gen) < RunMin(0) /\ Len(hof_items) = 2

\* the triggered step of a run configured for the Radiation Leak
LeakStep == Triggered /\ stuck[2] = "Radiation Leak"

\* C20: in a generation where a Radiation Leak is dispatched no selection is
\* performed: the pool handed to the variation step is the complete
\* population of the previous generation, Individual by Individual, elites
\* included (each comes out as it was or varied), and the hall-of-fame
\* members are then appended to it to form the new population.
C20_LeakVariesWholePopulation ==
    [][/\ LeakStep =>
             /\ offspring = population
             /\ Len(offspring') = Len(population)
             /\ InSlots(offspring', EvaluateAll(VarAnd(Fixed(population)), evaluate))
             /\ hof_items' = hof_items
       /\ (pc = "merge" /\ shock_event = "Radiation Leak") =>
             population' = offspring \o hof_items]_vars

\* C20's case: a Radiation Leak generation has been completed and the
\* population has grown by the two hall-of-fame members
C20_Witness ==
    /\ pc = "loop" /\ gen >= 3 /\ Rec(gen).shock_event = "Radiation Leak"
    /\ Len(hof_items) = 2 /\ Len(population) >= population_size + 2

====
